---- MODULE Spec2Model ----
(***************************************************************************)
(* A model of the CollabCanva tile-extraction scripts                      *)
(* (src/collabcanvas/*.py): extract_tiles.py, extract_tiles_correct.py,    *)
(* split_tiles.py and extract_single_test.py, run one after another in any *)
(* order against one working directory.                                    *)
(*                                                                         *)
(* Images are modelled pixel by pixel.  The sprite sheet is symbolic: the  *)
(* pixel at (x, y) of a w-wide sheet is the integer y*w + x, so two pixels *)
(* of an output are equal only when they were copied from the same place   *)
(* of the sheet; the fill value of a crop outside the image and of a new   *)
(* image, (0, 0, 0, 0), is Transparent.  The sheet is an RGBA image        *)
(* (inspect_sprites.py reads pixel[3]), so convert('RGBA') keeps pixels.   *)
(***************************************************************************)
EXTENDS Integers, Sequences, FiniteSets

\* ------------------------------------------------------------------------
\* Program constants
\* ------------------------------------------------------------------------
TILE_SIZE == 16
MARGIN == 1
TILE_STEP == TILE_SIZE + MARGIN
VARIANTS == 16

\* ------------------------------------------------------------------------
\* Bounds of the inputs the model enumerates
\* ------------------------------------------------------------------------
\* Grid shapes tried besides the configured one: 0..MaxGrid columns and rows.
MaxGrid == 2
\* Longest exclude list tried.
MaxExclude == 1

\* ------------------------------------------------------------------------
\* Paths and names
\* ------------------------------------------------------------------------
SheetPath == "roguelikeSheet_transparent.png"
OutDir == "public/assets/tilesets"

\* os.path.join of a directory and a file name.
Join(dir, file) == dir \o "/" \o file

Digit(d) ==
  CASE d = 0 -> "0" [] d = 1 -> "1" [] d = 2 -> "2" [] d = 3 -> "3"
    [] d = 4 -> "4" [] d = 5 -> "5" [] d = 6 -> "6" [] d = 7 -> "7"
    [] d = 8 -> "8" [] d = 9 -> "9"

RECURSIVE Decimal(_)
Decimal(n) == IF n < 10 THEN Digit(n) ELSE Decimal(n \div 10) \o Digit(n % 10)

\* Fmt02 without the zero padding.
Fmt02Unpadded(n) == Decimal(n)

\* The format specification {idx:02d}: decimal, zero-padded to width two.
Fmt02(n) == IF n < 10 THEN "0" \o Digit(n) ELSE Decimal(n)

\* f'{name}_{idx:02d}.png'
TileFile(name, idx) == name \o "_" \o Fmt02(idx) \o ".png"

\* os.path.join(output_dir, name): the directory of a tile set's tiles.
TilesetDir(name) == Join(OutDir, name)

\* os.path.join(tileset_dir, f'{name}_{idx:02d}.png')
TilePath(name, idx) == Join(TilesetDir(name), TileFile(name, idx))

\* os.path.join(output_dir, f'{name}.png'): the 256x16 strip of a tile set.
StripFile(name) == name \o ".png"

StripPath(name) == Join(OutDir, StripFile(name))

\* ------------------------------------------------------------------------
\* Images (PIL.Image)
\* ------------------------------------------------------------------------
Transparent == 0 - 1

InImage(img, x, y) == 0 <= x /\ x < img.w /\ 0 <= y /\ y < img.h

Coords(w, h) == (0 .. (w - 1)) \X (0 .. (h - 1))

\* The decoded sprite sheet: pixel (x, y) is the symbol y*w + x.
SheetImage(w, h) ==
  [w |-> w, h |-> h, px |-> [p \in Coords(w, h) |-> p[2] * w + p[1]]]

\* Image.new('RGBA', (w, h), (0, 0, 0, 0))
NewImage(w, h) ==
  [w |-> w, h |-> h, px |-> [p \in Coords(w, h) |-> Transparent]]

\* img.crop((x0, y0, x1, y1)): an image of the box's size; PIL raises nothing
\* for a box that leaves the image, the pixels outside are (0, 0, 0, 0).
Crop(img, box) ==
  LET x0 == box[1]
      y0 == box[2]
      w  == box[3] - box[1]
      h  == box[4] - box[2]
  IN [w |-> w, h |-> h,
      px |-> [p \in Coords(w, h) |->
                IF InImage(img, x0 + p[1], y0 + p[2])
                  THEN img.px[<<x0 + p[1], y0 + p[2]>>]
                  ELSE Transparent]]

\* dst.paste(src, (x, y)): src replaces the pixels of dst under it.
Paste(dst, src, x, y) ==
  [w |-> dst.w, h |-> dst.h,
   px |-> [p \in Coords(dst.w, dst.h) |->
             IF x <= p[1] /\ p[1] < x + src.w /\ y <= p[2] /\ p[2] < y + src.h
               THEN src.px[<<p[1] - x, p[2] - y>>]
               ELSE dst.px[p]]]

\* img.save(path) as PNG: the size and the pixels in raster order.
EncodePNG(img) ==
  [w |-> img.w, h |-> img.h,
   data |-> [i \in 1 .. (img.w * img.h) |->
               img.px[<<(i - 1) % img.w, (i - 1) \div img.w>>]]]

\* Image.open(path).convert('RGBA') of a PNG file.
DecodePNG(file) ==
  [w |-> file.w, h |-> file.h,
   px |-> [p \in Coords(file.w, file.h) |-> file.data[p[2] * file.w + p[1] + 1]]]

\* Two images are pixel-identical.
SameImage(a, b) ==
  /\ a.w = b.w
  /\ a.h = b.h
  /\ \A p \in Coords(a.w, a.h) : a.px[p] = b.px[p]

\* ------------------------------------------------------------------------
\* State
\* ------------------------------------------------------------------------
VARIABLES
  sheet,       \* the sprite sheet file: [exists, w, h]
  unwritable,  \* paths whose save raises OSError (permissions, full disk)
  TILESETS,    \* extract_tiles_correct.py's TILESETS
  dirs,        \* directories that exist
  fs,          \* PNG files written: path -> encoded image
  writer,      \* path -> the script that wrote it last
  status,      \* script -> "idle", "exit0" (ended, exit status 0),
               \*   "exit1" (sys.exit with a non-zero status) or
               \*   "crashed" (uncaught exception: traceback, exit status 1)
  out,         \* script -> the messages it printed, in order
  written,     \* script -> the paths it saved, in order
  crops        \* script -> the sheet regions it cropped, in order

vars == <<sheet, unwritable, TILESETS, dirs, fs, writer, status, out, written, crops>>

Scripts == {"extract_tiles", "extract_tiles_correct", "split_tiles", "extract_single_test"}

Msg(kind, name, n) == [kind |-> kind, name |-> name, n |-> n]

\* The effects of a script run so far; ok is FALSE once an exception is
\* propagating, and every later statement is then skipped.
Fresh(script) ==
  [script |-> script, ok |-> TRUE, dirs |-> dirs, fs |-> fs, writer |-> writer,
   out |-> <<>>, written |-> <<>>, crops |-> <<>>]

Put(f, k, v) == [x \in (DOMAIN f) \cup {k} |-> IF x = k THEN v ELSE f[x]]

Say(st, kind, name, n) ==
  IF st.ok THEN [st EXCEPT !.out = Append(@, Msg(kind, name, n))] ELSE st

Raise(st) ==
  IF st.ok THEN [st EXCEPT !.ok = FALSE, !.out = Append(@, Msg("traceback", "", 0))]
  ELSE st

\* os.makedirs(d) with its missing parents, for a directory d under OutDir.
MakeDirs(st, d) ==
  IF st.ok THEN [st EXCEPT !.dirs = @ \cup {OutDir, d}] ELSE st

\* image.save(os.path.join(dir, file)): raises when the directory is missing
\* or the file cannot be written, and then writes nothing.
Save(st, dir, file, img) ==
  LET path == Join(dir, file)
  IN IF ~st.ok THEN st
     ELSE IF dir \notin st.dirs \/ path \in unwritable THEN Raise(st)
     ELSE [st EXCEPT !.fs = Put(@, path, EncodePNG(img)),
                     !.writer = Put(@, path, st.script),
                     !.written = Append(@, path)]

\* The sheet region a script cropped, as it is logged in crops.
Cropped(st, name, box) ==
  IF st.ok THEN [st EXCEPT !.crops = Append(@, [name |-> name, box |-> box])] ELSE st

\* The end of a script run: its effects and its exit.
Commit(st, code) ==
  /\ dirs' = st.dirs
  /\ fs' = st.fs
  /\ writer' = st.writer
  /\ out' = [out EXCEPT ![st.script] = st.out]
  /\ written' = [written EXCEPT ![st.script] = st.written]
  /\ crops' = [crops EXCEPT ![st.script] = st.crops]
  /\ status' = [status EXCEPT ![st.script] = IF st.ok THEN code ELSE "crashed"]
  /\ UNCHANGED <<sheet, unwritable, TILESETS>>

\* ------------------------------------------------------------------------
\* extract_tiles.py
\* ------------------------------------------------------------------------
TILE_SETS ==
  [grass |-> [coords |-> <<289, 425>>, layout |-> "grid"],
   dirt  |-> [coords |-> <<187, 425>>, layout |-> "grid"],
   water |-> [coords |-> <<255, 425>>, layout |-> "grid"],
   stone |-> [coords |-> <<425, 425>>, layout |-> "grid"]]

\* The iteration order of TILE_SETS.items().
TILE_SETS_ORDER == <<"grass", "dirt", "water", "stone">>

\* The box cropped for idx: row = idx // 4, col = idx % 4.
TileBox(coords, idx) ==
  LET row == idx \div 4
      col == idx % 4
      tile_x == coords[1] + (col * TILE_STEP)
      tile_y == coords[2] + (row * TILE_STEP)
  IN <<tile_x, tile_y, tile_x + TILE_SIZE, tile_y + TILE_SIZE>>

\* StripOffset with the sheet's margin kept in the strip.
StripOffsetWithMargin(idx) == idx * TILE_STEP

\* Where tile idx is pasted in the strip.
StripOffset(idx) == idx * TILE_SIZE

RECURSIVE RowImage(_, _, _)
\* row_image after the iterations idx = 0 .. n-1 of the loop over range(16).
RowImage(img, coords, n) ==
  IF n = 0 THEN NewImage(16 * TILE_SIZE, TILE_SIZE)
  ELSE Paste(RowImage(img, coords, n - 1), Crop(img, TileBox(coords, n - 1)),
             StripOffset(n - 1), 0)

RECURSIVE LogTileBoxes(_, _, _, _)
LogTileBoxes(st, name, coords, idx) ==
  IF idx >= 16 THEN st
  ELSE LogTileBoxes(Cropped(st, name, TileBox(coords, idx)), name, coords, idx + 1)

\* One iteration of the loop over TILE_SETS.items().
ExtractStrip(st, name) ==
  LET config == TILE_SETS[name]
      img == SheetImage(sheet.w, sheet.h)
  IN IF ~st.ok \/ config.layout # "grid" THEN st
     ELSE Say(Save(LogTileBoxes(st, name, config.coords, 0), OutDir, StripFile(name),
                   RowImage(img, config.coords, 16)),
              "saved", name, 0)

RECURSIVE ExtractStrips(_, _, _)
\* for name, config in TILE_SETS.items(), from the i-th name on.
ExtractStrips(st, order, i) ==
  IF i > Len(order) THEN st ELSE ExtractStrips(ExtractStrip(st, order[i]), order, i + 1)

\* python extract_tiles.py
RunExtractTiles ==
  /\ status["extract_tiles"] = "idle"
  /\ IF ~sheet.exists
       THEN Commit(Say(Fresh("extract_tiles"), "source_not_found", SheetPath, 0), "exit0")
       ELSE Commit(Say(ExtractStrips(MakeDirs(Fresh("extract_tiles"), OutDir),
                                     TILE_SETS_ORDER, 1),
                       "success", "", 0), "exit0")

\* ------------------------------------------------------------------------
\* split_tiles.py
\* ------------------------------------------------------------------------
SPLIT_TILESETS == <<"water", "grass", "dirt", "stone">>

\* The box cropped from the strip for a variant.
VariantBox(variant) ==
  LET x == variant * TILE_SIZE
      y == 0
  IN <<x, y, x + TILE_SIZE, y + TILE_SIZE>>

RECURSIVE SplitVariants(_, _, _, _)
SplitVariants(st, name, img, variant) ==
  IF variant >= VARIANTS THEN st
  ELSE SplitVariants(Save(st, TilesetDir(name), TileFile(name, variant),
                          Crop(img, VariantBox(variant))),
                     name, img, variant + 1)

\* split_tileset(tileset_name, input_dir, output_dir)
SplitTileset(st, name) ==
  IF ~st.ok THEN st
  ELSE IF StripPath(name) \notin DOMAIN st.fs THEN Say(st, "not_found", name, 0)
  ELSE Say(SplitVariants(MakeDirs(Say(st, "processing", name, 0), TilesetDir(name)),
                         name, DecodePNG(st.fs[StripPath(name)]), 0),
           "saved", name, VARIANTS)

RECURSIVE SplitTilesets(_, _, _)
\* for tileset in TILESETS, from the i-th name on.
SplitTilesets(st, order, i) ==
  IF i > Len(order) THEN st ELSE SplitTilesets(SplitTileset(st, order[i]), order, i + 1)

\* python split_tiles.py
RunSplitTiles ==
  /\ status["split_tiles"] = "idle"
  /\ Commit(Say(SplitTilesets(Fresh("split_tiles"), SPLIT_TILESETS, 1),
                "success", "", 0), "exit0")

\* ------------------------------------------------------------------------
\* extract_tiles_correct.py
\* ------------------------------------------------------------------------
\* TILESETS as the source sets it.
SourceTILESETS ==
  [water |-> [start |-> <<1, 1>>,  grid |-> <<5, 6>>,  exclude |-> <<>>],
   grass |-> [start |-> <<1, 7>>,  grid |-> <<5, 12>>, exclude |-> <<>>],
   dirt  |-> [start |-> <<6, 8>>,  grid |-> <<5, 6>>,  exclude |-> <<>>],
   stone |-> [start |-> <<6, 13>>, grid |-> <<5, 6>>,  exclude |-> <<>>]]

\* The iteration order of TILESETS.items().
TILESETS_ORDER == <<"water", "grass", "dirt", "stone">>

\* The number of tiles an auto-tiling set needs (the literal 16).
AUTO_TILES == 16

Range(seq) == {seq[i] : i \in DOMAIN seq}

\* CellBox with the margin between tiles forgotten.
CellBoxNoMargin(config, col, row) ==
  LET x == (config.start[1] + col) * TILE_SIZE
      y == (config.start[2] + row) * TILE_SIZE
  IN <<x, y, x + TILE_SIZE, y + TILE_SIZE>>

\* The box cropped for the grid cell (col, row) of a tile set.
CellBox(config, col, row) ==
  LET tile_col == config.start[1] + col
      tile_row == config.start[2] + row
      x == tile_col * TILE_STEP
      y == tile_row * TILE_STEP
  IN <<x, y, x + TILE_SIZE, y + TILE_SIZE>>

\* (tile_col, tile_row) in exclude
Excluded(config, col, row) ==
  <<config.start[1] + col, config.start[2] + row>> \in Range(config.exclude)

RECURSIVE CellsFromInclusive(_, _, _)
\* CellsFrom with the row loop running one row too far.
CellsFromInclusive(config, row, col) ==
  IF row > config.grid[2] THEN <<>>
  ELSE IF col >= config.grid[1] THEN CellsFromInclusive(config, row + 1, 0)
  ELSE <<(<<col, row>>)>> \o CellsFromInclusive(config, row, col + 1)

RECURSIVE CellsFrom(_, _, _)
\* The cells (col, row) the nested loops over range(rows) and range(cols)
\* visit, in order, from (row, col) on.
CellsFrom(config, row, col) ==
  IF row >= config.grid[2] THEN <<>>
  ELSE IF col >= config.grid[1] THEN CellsFrom(config, row + 1, 0)
  ELSE <<(<<col, row>>)>> \o CellsFrom(config, row, col + 1)

IsExcluded(config, cell) == Excluded(config, cell[1], cell[2])

IsKept(config, cell) == ~Excluded(config, cell[1], cell[2])

\* The loops' effect: a message for every excluded cell, a crop appended to
\* tiles for every other cell; boxes are the boxes of tiles.
Collect(st, name, config) ==
  LET cells == CellsFrom(config, 0, 0)
      skipped == SelectSeq(cells, LAMBDA c : IsExcluded(config, c))
      kept == SelectSeq(cells, LAMBDA c : IsKept(config, c))
      boxes == [i \in 1 .. Len(kept) |-> CellBox(config, kept[i][1], kept[i][2])]
  IN [st |-> [st EXCEPT
                !.out = @ \o [i \in 1 .. Len(skipped) |-> Msg("skipping", name, 0)],
                !.crops = @ \o [i \in 1 .. Len(boxes) |-> [name |-> name, box |-> boxes[i]]]],
      boxes |-> boxes]

\* FirstTiles keeping the last 16 tiles instead of the first.
LastTiles(boxes) ==
  IF Len(boxes) >= AUTO_TILES THEN SubSeq(boxes, Len(boxes) - AUTO_TILES + 1, Len(boxes))
  ELSE boxes

\* tiles[:16] when len(tiles) >= 16, else tiles.
FirstTiles(boxes) ==
  IF Len(boxes) >= AUTO_TILES THEN SubSeq(boxes, 1, AUTO_TILES) ELSE boxes

RECURSIVE SaveTiles(_, _, _, _, _)
\* for idx, tile in enumerate(tiles): tile.save(...), from idx (0-based) on.
SaveTiles(st, name, img, boxes, idx) ==
  IF idx >= Len(boxes) THEN st
  ELSE SaveTiles(Save(st, TilesetDir(name), TileFile(name, idx), Crop(img, boxes[idx + 1])),
                 name, img, boxes, idx + 1)

RECURSIVE FillTiles(_, _, _, _, _)
\* for idx in range(len(tiles), 16): tiles[0].save(...); tiles[0] of an empty
\* list raises IndexError.
FillTiles(st, name, img, boxes, idx) ==
  IF idx >= AUTO_TILES THEN st
  ELSE IF Len(boxes) = 0 THEN Raise(st)
  ELSE FillTiles(Save(st, TilesetDir(name), TileFile(name, idx), Crop(img, boxes[1])),
                 name, img, boxes, idx + 1)

\* One iteration of the loop over TILESETS.items().
ExtractTiles(st, name) ==
  LET config == TILESETS[name]
      img == SheetImage(sheet.w, sheet.h)
      got == Collect(Say(st, "extracting", name, 0), name, config)
      n == Len(got.boxes)
      tiles == FirstTiles(got.boxes)
      told == IF n >= AUTO_TILES
                THEN Say(Say(got.st, "collected", name, n), "using_first_16", name, 0)
                ELSE Say(Say(got.st, "collected", name, n), "warning", name, n)
      saved == SaveTiles(MakeDirs(told, TilesetDir(name)), name, img, tiles, 0)
      filled == IF Len(tiles) < AUTO_TILES
                  THEN FillTiles(saved, name, img, tiles, Len(tiles))
                  ELSE saved
  IN IF ~st.ok THEN st ELSE Say(filled, "saved16", name, 0)

RECURSIVE ExtractTilesets(_, _, _)
\* for name, config in TILESETS.items(), from the i-th name on.
ExtractTilesets(st, order, i) ==
  IF i > Len(order) THEN st ELSE ExtractTilesets(ExtractTiles(st, order[i]), order, i + 1)

\* python extract_tiles_correct.py
RunExtractTilesCorrect ==
  /\ status["extract_tiles_correct"] = "idle"
  /\ IF ~sheet.exists
       THEN Commit(Say(Fresh("extract_tiles_correct"), "source_not_found", SheetPath, 0),
                   "exit0")
       ELSE Commit(Say(ExtractTilesets(MakeDirs(Fresh("extract_tiles_correct"), OutDir),
                                       TILESETS_ORDER, 1),
                       "success", "", 0), "exit0")

\* ------------------------------------------------------------------------
\* extract_single_test.py
\* ------------------------------------------------------------------------
\* TESTS with a test file named like a strip of extract_tiles.py.
TESTS_Colliding ==
  <<[box |-> <<0, 0, 16, 16>>, file |-> "test_topleft.png"],
    [box |-> <<85, 0, 85 + 16, 16>>, file |-> "grass.png"],
    [box |-> <<289, 425, 289 + 16, 425 + 16>>, file |-> "test_previous.png"]>>

TESTS ==
  <<[box |-> <<0, 0, 16, 16>>, file |-> "test_topleft.png"],
    [box |-> <<85, 0, 85 + 16, 16>>, file |-> "test_green.png"],
    [box |-> <<289, 425, 289 + 16, 425 + 16>>, file |-> "test_previous.png"]>>

\* test = img.crop(box); test.save(...); print(...)
SaveTest(st, i) ==
  Say(Save(Cropped(st, TESTS[i].file, TESTS[i].box), OutDir, TESTS[i].file,
           Crop(SheetImage(sheet.w, sheet.h), TESTS[i].box)),
      "saved", TESTS[i].file, 0)

\* python extract_single_test.py: Image.open raises FileNotFoundError when
\* the sheet is missing.
RunExtractSingleTest ==
  /\ status["extract_single_test"] = "idle"
  /\ IF ~sheet.exists
       THEN Commit(Raise(Fresh("extract_single_test")), "exit0")
       ELSE Commit(Say(SaveTest(SaveTest(SaveTest(Fresh("extract_single_test"), 1), 2), 3),
                       "check_files", "", 0), "exit0")

\* ------------------------------------------------------------------------
\* The environment and the specifications
\* ------------------------------------------------------------------------
NoSheet == [exists |-> FALSE, w |-> 0, h |-> 0]

Sheet(w, h) == [exists |-> TRUE, w |-> w, h |-> h]

\* The sprite sheet: missing, the 968x526 sheet, or smaller sheets that
\* leave some of the configured regions partly or wholly outside.
Sheets == {NoSheet, Sheet(968, 526), Sheet(400, 526)}

UnwritableChoices == {{}, {StripPath("dirt")}, {TilePath("grass", 3)}}

InitRun ==
  /\ fs = <<>>
  /\ writer = <<>>
  /\ status = [s \in Scripts |-> "idle"]
  /\ out = [s \in Scripts |-> <<>>]
  /\ written = [s \in Scripts |-> <<>>]
  /\ crops = [s \in Scripts |-> <<>>]

\* The repository as it is, in an environment that may lack the sheet or the
\* output directory or refuse a write.
Init ==
  /\ sheet \in Sheets
  /\ unwritable \in UnwritableChoices
  /\ TILESETS = SourceTILESETS
  /\ dirs \in {{}, {OutDir}}
  /\ InitRun

Next ==
  \/ RunExtractTiles
  \/ RunExtractTilesCorrect
  \/ RunSplitTiles
  \/ RunExtractSingleTest

Spec == Init /\ [][Next]_vars

\* The grid specifications tried for one tile set of extract_tiles_correct.py
\* (grass, the second in the iteration order): the configured one, and grids
\* at the origin (0, 0) of the configured shape and of small shapes, with
\* exclude lists of up to MaxExclude cells.
GridShapes == {<<5, 12>>, <<MaxGrid, 0>>} \cup {<<c, c>> : c \in 1 .. MaxGrid}

ExcludeCandidates == <<(<<0, 0>>), (<<1, 1>>)>>

ExcludeLists ==
  {<<>>} \cup {SubSeq(ExcludeCandidates, i, j) :
                 <<i, j>> \in {ij \in (1 .. 2) \X (1 .. 2) :
                                 ij[1] <= ij[2] /\ ij[2] - ij[1] < MaxExclude}}

GrassConfigs ==
  {SourceTILESETS.grass}
    \cup {[start |-> <<0, 0>>, grid |-> g, exclude |-> e] : g \in GridShapes, e \in ExcludeLists}

GridSheets == {Sheet(968, 526), Sheet(400, 526)}

\* The extractors and the splitter under grid specifications given as input.
InitGrid ==
  /\ sheet \in GridSheets
  /\ unwritable = {}
  /\ TILESETS \in {[SourceTILESETS EXCEPT !.grass = g] : g \in GrassConfigs}
  /\ dirs = {}
  /\ InitRun

NextGrid ==
  \/ RunExtractTiles
  \/ RunExtractTilesCorrect
  \/ RunSplitTiles

SpecGrid == InitGrid /\ [][NextGrid]_vars

\* ------------------------------------------------------------------------
\* Vocabulary of the properties
\* ------------------------------------------------------------------------
Names == {"water", "grass", "dirt", "stone"}

Ended(s) == status[s] # "idle"

\* Script s printed a message of this kind about this name.
Said(s, kind, name) ==
  \E i \in DOMAIN out[s] : out[s][i].kind = kind /\ out[s][i].name = name

\* The boxes script s cropped from the sheet for a tile set, in order.
CropsOf(s, name) == SelectSeq(crops[s], LAMBDA c : c.name = name)

\* The tile_size x tile_size square whose top-left pixel is (x, y).
Square(x, y) == <<x, y, x + TILE_SIZE, y + TILE_SIZE>>

\* The square of grid cell (col, row) of a grid whose origin pixel is origin.
ExpectedBox(origin, col, row) ==
  Square(origin[1] + col * (TILE_SIZE + MARGIN), origin[2] + row * (TILE_SIZE + MARGIN))

BoxInSheet(box) ==
  0 <= box[1] /\ box[3] <= sheet.w /\ 0 <= box[2] /\ box[4] <= sheet.h

AllInSheet(s, name) ==
  \A i \in DOMAIN CropsOf(s, name) : BoxInSheet(CropsOf(s, name)[i].box)

\* The origin pixel of a tile set of extract_tiles_correct.py.
OriginPixel(config) ==
  <<config.start[1] * (TILE_SIZE + MARGIN), config.start[2] * (TILE_SIZE + MARGIN)>>

GridCells(config) == (0 .. (config.grid[1] - 1)) \X (0 .. (config.grid[2] - 1))

ExcludedCells(config) ==
  {c \in GridCells(config) :
     \E i \in DOMAIN config.exclude :
        config.exclude[i] = <<config.start[1] + c[1], config.start[2] + c[2]>>}

KeptCells(config) == GridCells(config) \ ExcludedCells(config)

\* The position of a cell in row-major order.
RowMajor(config, cell) == cell[2] * config.grid[1] + cell[1]

\* How many kept cells come before a cell in row-major order.
Rank(config, cell) ==
  Cardinality({d \in KeptCells(config) : RowMajor(config, d) < RowMajor(config, cell)})

TheSheet == SheetImage(sheet.w, sheet.h)

\* The paths a script writes for a tile set.
Outputs(s, name) ==
  IF s = "extract_tiles" THEN {StripPath(name)}
  ELSE {TilePath(name, k) : k \in 0 .. (AUTO_TILES - 1)}

\* ------------------------------------------------------------------------
\* C1: every extractor crops, for grid cell (col, row), the tile_size x
\* tile_size square at origin_pixel + (col, row) * (tile_size + margin), and
\* visits the cells in row-major order; with the origin (0, 0), cell
\* (col 2, row 1) is read from pixel (34, 17).
\* ------------------------------------------------------------------------
C1_CropOffsets ==
  /\ \A name \in Names :
       LET cs == CropsOf("extract_tiles", name)
       IN cs # <<>> =>
            /\ Len(cs) = 4 * 4
            /\ \A k \in 0 .. 15 :
                 cs[k + 1].box = ExpectedBox(TILE_SETS[name].coords, k % 4, k \div 4)
  /\ status["extract_tiles"] = "exit0" =>
       \A name \in Names : CropsOf("extract_tiles", name) # <<>>
  /\ \A name \in Names :
       LET cs == CropsOf("extract_tiles_correct", name)
           config == TILESETS[name]
       IN Said("extract_tiles_correct", "collected", name) =>
            /\ Len(cs) = Cardinality(KeptCells(config))
            /\ \A cell \in KeptCells(config) :
                 cs[Rank(config, cell) + 1].box
                   = ExpectedBox(OriginPixel(config), cell[1], cell[2])
  /\ ( /\ Said("extract_tiles_correct", "collected", "grass")
       /\ TILESETS.grass.start = <<0, 0>>
       /\ <<2, 1>> \in KeptCells(TILESETS.grass) )
     => \E i \in DOMAIN crops["extract_tiles_correct"] :
          /\ crops["extract_tiles_correct"][i].name = "grass"
          /\ crops["extract_tiles_correct"][i].box = <<34, 17, 34 + 16, 17 + 16>>

C1_Witness ==
  /\ Said("extract_tiles_correct", "collected", "grass")
  /\ TILESETS.grass.start = <<0, 0>>
  /\ TILESETS.grass.exclude # <<>>
  /\ <<2, 1>> \in KeptCells(TILESETS.grass)
  /\ Len(crops["extract_tiles"]) = 64

\* ------------------------------------------------------------------------
\* C4: the tile split_tiles.py cuts from a strip at x = k*16 is
\* pixel-identical to the tile extract_tiles.py cropped from the sheet at
\* grid cell (k mod 4, k div 4); the strip is 256x16, without margins.
\* ------------------------------------------------------------------------
C4_StripRoundTrip ==
  \A name \in Names :
    /\ StripPath(name) \in DOMAIN fs =>
         fs[StripPath(name)].w = 256 /\ fs[StripPath(name)].h = 16
    /\ \A k \in 0 .. 15 :
         LET p == TilePath(name, k)
         IN (p \in DOMAIN fs /\ writer[p] = "split_tiles") =>
              SameImage(DecodePNG(fs[p]),
                        Crop(TheSheet, ExpectedBox(TILE_SETS[name].coords, k % 4, k \div 4)))

C4_Witness ==
  /\ sheet = Sheet(968, 526)
  /\ TilePath("grass", 6) \in DOMAIN fs
  /\ writer[TilePath("grass", 6)] = "split_tiles"
  /\ status["split_tiles"] = "exit0"

\* ------------------------------------------------------------------------
\* C8: the files written for a tile set by extract_tiles_correct.py or
\* split_tiles.py are exactly name_00.png .. name_15.png, in the tile set's
\* directory: two-digit indices, contiguous from 0, each written once.
\* ------------------------------------------------------------------------
TwoDigits(k) == Digit(k \div 10) \o Digit(k % 10)

ExpectedTileFiles(name) ==
  [k \in 1 .. 16 |->
     "public/assets/tilesets/" \o name \o "/" \o name \o "_" \o TwoDigits(k - 1) \o ".png"]

RECURSIVE ExpectedWrites(_, _, _, _)
\* The files of the tile sets script s finished, in the order it takes them.
ExpectedWrites(s, kind, order, i) ==
  IF i > Len(order) THEN <<>>
  ELSE (IF Said(s, kind, order[i]) THEN ExpectedTileFiles(order[i]) ELSE <<>>)
         \o ExpectedWrites(s, kind, order, i + 1)

WritesAreTileFiles(s, kind, order) ==
  LET exp == ExpectedWrites(s, kind, order, 1)
  IN /\ Len(written[s]) >= Len(exp)
     /\ SubSeq(written[s], 1, Len(exp)) = exp
     /\ status[s] = "exit0" => written[s] = exp

C8_TileFileNames ==
  /\ WritesAreTileFiles("extract_tiles_correct", "saved16", TILESETS_ORDER)
  /\ WritesAreTileFiles("split_tiles", "saved", SPLIT_TILESETS)

C8_Witness ==
  /\ Said("extract_tiles_correct", "saved16", "grass")
  /\ Said("extract_tiles_correct", "warning", "grass")
  /\ Said("split_tiles", "saved", "water")
  /\ status["extract_tiles_correct"] = "exit0"

\* ------------------------------------------------------------------------
\* C10: in extract_tiles_correct.py the tile written at index k, for k below
\* min(16, number of non-excluded cells), is the k-th non-excluded cell in
\* row-major order; excluded cells leave no gap, and when more than 16 cells
\* remain only the first 16 are written.
\* ------------------------------------------------------------------------
C10_KeptCellsInOrder ==
  \A name \in Names :
    LET config == TILESETS[name]
    IN /\ \A k \in 0 .. (AUTO_TILES - 1) :
            LET p == TilePath(name, k)
            IN ( /\ p \in DOMAIN fs
                 /\ writer[p] = "extract_tiles_correct"
                 /\ k < Cardinality(KeptCells(config)) )
               => \E cell \in KeptCells(config) :
                    /\ Rank(config, cell) = k
                    /\ fs[p] = EncodePNG(Crop(TheSheet,
                                 ExpectedBox(OriginPixel(config), cell[1], cell[2])))
       /\ \A k \in AUTO_TILES .. Cardinality(GridCells(config)) :
            \A i \in DOMAIN written["extract_tiles_correct"] :
               written["extract_tiles_correct"][i] # TilePath(name, k)

C10_Witness ==
  /\ TILESETS.grass.grid = <<5, 12>>
  /\ TILESETS.grass.exclude # <<>>
  /\ Said("extract_tiles_correct", "saved16", "grass")
  /\ TilePath("grass", 15) \in DOMAIN fs
  /\ writer[TilePath("grass", 15)] = "extract_tiles_correct"

\* ------------------------------------------------------------------------
\* C2: when a crop region of a tile set lies partly or wholly outside the
\* sheet, extraction signals an out-of-bounds error and writes no output
\* file for that tile set.
\* ------------------------------------------------------------------------
C2_OutOfBoundsSignalled ==
  \A s \in {"extract_tiles", "extract_tiles_correct"} :
    \A name \in Names :
      (Ended(s) /\ CropsOf(s, name) # <<>> /\ ~AllInSheet(s, name)) =>
         /\ Said(s, "out_of_bounds", name)
         /\ \A i \in DOMAIN written[s] : written[s][i] \notin Outputs(s, name)

\* ------------------------------------------------------------------------
\* C3: when fewer than 16 tiles are collected for a tile set (n < 16),
\* extract_tiles_correct.py writes 16 tiles: index k < n is the k-th
\* collected tile, every index n..15 is a copy of tile 0, and a warning
\* tells the caller of the shortfall.
\* ------------------------------------------------------------------------
\* The statement for the tile sets with least <= n < 16.
PadsToSixteen(least) ==
  \A name \in Names :
    LET config == TILESETS[name]
        n == Cardinality(KeptCells(config))
    IN ( /\ Ended("extract_tiles_correct")
         /\ Said("extract_tiles_correct", "collected", name)
         /\ least <= n
         /\ n < AUTO_TILES )
       => /\ Said("extract_tiles_correct", "warning", name)
          /\ \A k \in 0 .. (AUTO_TILES - 1) :
               LET p == TilePath(name, k)
               IN /\ \E i \in DOMAIN written["extract_tiles_correct"] :
                       written["extract_tiles_correct"][i] = p
                  /\ p \in DOMAIN fs
                  /\ writer[p] = "extract_tiles_correct" =>
                       \E cell \in KeptCells(config) :
                         /\ Rank(config, cell) = (IF k < n THEN k ELSE 0)
                         /\ fs[p] = EncodePNG(Crop(TheSheet,
                                      ExpectedBox(OriginPixel(config), cell[1], cell[2])))

C3_PadsToSixteen == PadsToSixteen(0)

\* What the code does keep of C3: the statement for 1 <= n < 16.
C3_PadsWhenNotEmpty == PadsToSixteen(1)

\* ------------------------------------------------------------------------
\* C5: when the sprite sheet is missing, a run reports the missing file and
\* ends with a non-zero exit status, without crashing and without writing
\* any output; it never ends with exit status 0.
\* ------------------------------------------------------------------------
C5_MissingSourceIsFatal ==
  \A s \in {"extract_tiles", "extract_tiles_correct", "extract_single_test"} :
    (~sheet.exists /\ Ended(s)) =>
       /\ status[s] = "exit1"
       /\ Said(s, "source_not_found", SheetPath)
       /\ written[s] = <<>>

\* ------------------------------------------------------------------------
\* C6: an error while processing one tile set ends only that tile set's
\* processing: every other tile set of the run is still processed and its
\* outputs are written.
\* ------------------------------------------------------------------------
\* Processing the tile set in script s meets an error: one of its outputs
\* cannot be written, or its input strip is missing.
HasError(s, name) ==
  \/ Outputs(s, name) \cap unwritable # {}
  \/ Said(s, "not_found", name)

C6_ErrorsAreIsolated ==
  \A s \in {"extract_tiles", "extract_tiles_correct", "split_tiles"} :
    (Ended(s) /\ (s # "split_tiles" => sheet.exists)) =>
       \A name \in Names :
         ~HasError(s, name) =>
            \A p \in Outputs(s, name) : \E i \in DOMAIN written[s] : written[s][i] = p

\* ------------------------------------------------------------------------
\* C7: for a grid spec whose cells all lie inside the sheet, extraction
\* returns exactly columns x rows tiles, each tile_size x tile_size.
\* ------------------------------------------------------------------------
\* How many tile files extract_tiles_correct.py wrote for a tile set.
TilesWritten(name) ==
  Cardinality({i \in DOMAIN written["extract_tiles_correct"] :
                 \E k \in 0 .. (AUTO_TILES + Cardinality(GridCells(TILESETS[name]))) :
                    written["extract_tiles_correct"][i] = TilePath(name, k)})

IsTileSized(box) == box[3] - box[1] = TILE_SIZE /\ box[4] - box[2] = TILE_SIZE

\* The claim as stated: the tiles a complete run of extract_tiles_correct.py
\* ends with number columns x rows.
C7_ReturnsColumnsTimesRows ==
  \A name \in Names :
    ( /\ status["extract_tiles_correct"] = "exit0"
      /\ Said("extract_tiles_correct", "saved16", name)
      /\ AllInSheet("extract_tiles_correct", name) )
    => TilesWritten(name) = TILESETS[name].grid[1] * TILESETS[name].grid[2]

\* The claim as amended: columns x rows cells less the excluded ones are
\* cropped, each tile_size x tile_size; extract_tiles_correct.py then writes
\* 16 tile files, whatever columns x rows is.
C7_CropsEveryCellWritesSixteen ==
  /\ \A name \in Names :
       LET cs == CropsOf("extract_tiles_correct", name)
           config == TILESETS[name]
       IN ( /\ Said("extract_tiles_correct", "collected", name)
            /\ AllInSheet("extract_tiles_correct", name) )
          => /\ Len(cs) = config.grid[1] * config.grid[2]
                            - Cardinality(ExcludedCells(config))
             /\ \E i \in DOMAIN out["extract_tiles_correct"] :
                   out["extract_tiles_correct"][i] = Msg("collected", name, Len(cs))
             /\ \A i \in DOMAIN cs : IsTileSized(cs[i].box)
             /\ Said("extract_tiles_correct", "saved16", name) =>
                  /\ TilesWritten(name) = AUTO_TILES
                  /\ \A p \in Outputs("extract_tiles_correct", name) :
                       (p \in DOMAIN fs /\ writer[p] = "extract_tiles_correct") =>
                          fs[p].w = TILE_SIZE /\ fs[p].h = TILE_SIZE
  /\ \A name \in Names :
       LET cs == CropsOf("extract_tiles", name)
       IN (cs # <<>> /\ AllInSheet("extract_tiles", name)) =>
            /\ Len(cs) = 4 * 4
            /\ \A i \in DOMAIN cs : IsTileSized(cs[i].box)
            /\ Said("extract_tiles", "saved", name) =>
                 /\ fs[StripPath(name)].w = Len(cs) * TILE_SIZE
                 /\ fs[StripPath(name)].h = TILE_SIZE

C7_Witness ==
  /\ Said("extract_tiles_correct", "saved16", "water")
  /\ AllInSheet("extract_tiles_correct", "water")
  /\ Len(CropsOf("extract_tiles_correct", "water")) = 30
  /\ TilesWritten("water") = 16
  /\ Said("extract_tiles_correct", "saved16", "grass")
  /\ ExcludedCells(TILESETS.grass) # {}
  /\ Said("extract_tiles", "saved", "grass")
  /\ AllInSheet("extract_tiles", "grass")

\* ------------------------------------------------------------------------
\* C9: the scripts write pairwise disjoint output paths, so every output
\* file's final content is the same for every order of the runs.
\* ------------------------------------------------------------------------
WrittenBy(s) == {written[s][i] : i \in DOMAIN written[s]}

\* The claim as stated.
C9_DisjointOutputPaths ==
  \A s1 \in Scripts : \A s2 \in Scripts \ {s1} : WrittenBy(s1) \cap WrittenBy(s2) = {}

\* What extract_tiles_correct.py writes at index k of a tile set (the source's
\* exclude lists are empty), and what split_tiles.py writes there.
CorrectTile(name, k) ==
  EncodePNG(Crop(TheSheet,
    ExpectedBox(OriginPixel(TILESETS[name]),
                k % TILESETS[name].grid[1], k \div TILESETS[name].grid[1])))

SplitTile(name, k) ==
  EncodePNG(Crop(TheSheet, ExpectedBox(TILE_SETS[name].coords, k % 4, k \div 4)))

\* The claim as amended: only extract_tiles_correct.py and split_tiles.py
\* write a common path, the tile files <name>/<name>_NN.png; the two write
\* different tiles there, and the file holds those of the later run.
C9_OnlyTileFilesShared ==
  \A s1 \in Scripts : \A s2 \in Scripts \ {s1} :
    \A p \in WrittenBy(s1) \cap WrittenBy(s2) :
      /\ {s1, s2} = {"extract_tiles_correct", "split_tiles"}
      /\ \E name \in Names : \E k \in 0 .. (AUTO_TILES - 1) :
           /\ p = TilePath(name, k)
           /\ CorrectTile(name, k) # SplitTile(name, k)
           /\ fs[p] = IF writer[p] = "split_tiles" THEN SplitTile(name, k)
                      ELSE CorrectTile(name, k)

C9_Witness ==
  /\ TilePath("stone", 15) \in WrittenBy("extract_tiles_correct") \cap WrittenBy("split_tiles")
  /\ writer[TilePath("stone", 15)] = "extract_tiles_correct"
  /\ Ended("extract_single_test")
  /\ WrittenBy("extract_single_test") # {}
====
